---- MODULE Spec2Model ----
(***************************************************************************)
(* The server side of the file synchronisation system: the Dispatcher     *)
(* (src/server/dispatcher.py), the master file it serves                  *)
(* (src/server/file_handler.py) and the credential table it authenticates *)
(* against (src/common/auth.py).  The HTTP server is a plain HTTPServer,  *)
(* so each request is handled to completion before the next one starts:   *)
(* one action per remote method.  SpecDispatch calls handle_request with  *)
(* any method name, SpecHttp puts the transport (src/server/threads.py)   *)
(* in front of it, and SpecStore runs the FileHandler one statement at a  *)
(* time under several threads.  SpecLog follows the lines of sync.log,    *)
(* SpecClient the polling client (src/client), SpecServer the serving     *)
(* loop with waiting connections, SpecMethods both HTTP methods on every  *)
(* path, and SpecVersion check_master_version one statement at a time.    *)
(* SpecConverge is the client run without end once the master is left     *)
(* alone, SpecOthers has entries confirmed by users who did not open      *)
(* them, and SpecProtocol asks for deliveries under any protocol value.   *)
(***************************************************************************)
EXTENDS Integers, Sequences, FiniteSets, TLC

\* ------------------------------------------------------------------ bounds
\* number of requests the server handles in a run
MaxRequests == 3
\* last instant of the wall clock
MaxTime == 1
\* number of requests handled in a run that follows the log
MaxLogged == 2

\* ------------------------------------------------------- input alphabets
Usernames == {"admin", "bob"}
Passwords == {"password", "guess"}
\* passwords given to add_user while the server runs
NewPasswords == {"guess"}
ClientIps == {"10.0.0.1", "10.0.0.2"}
\* the threads that call into one Dispatcher at the same time
Threads == {1, 2}
DefaultContent == "# Master file"
Contents == {DefaultContent, "hello"}
\* the members of SyncProtocol, as the stub sends them (protocol.name)
SyncProtocol == {"R", "RR", "RRA"}
\* what a request may carry as its protocol: the three names, a name in
\* lower case, an unknown name and the empty text
ProtocolValues == SyncProtocol \cup {"rr", "X", ""}
\* Python's None where a number is expected
None == -1

VARIABLES
    sync_records,   \* Dispatcher.sync_records: sync_id -> SyncRecord
    users,          \* the users file: username -> password hash
    content,        \* the master file's content
    last_modified,  \* the master file's mtime
    now,            \* time.time()
    next_uuid,      \* the next value uuid.uuid4() returns
    call,           \* the step just taken: the method and what it was asked for
    response,       \* what that step returned
    issued,         \* history: sync_id returned so far -> protocol of the call
    handled,        \* history: number of requests handled so far
    lock,           \* FileHandler.lock: the thread that owns it and how often
    threads,        \* the threads inside a call: where they are, their locals
    sync_log,       \* sync.log: the lines the calls of SpecLog appended
    client          \* the client of SpecClient: where it is, its slave file

vars == <<sync_records, users, content, last_modified, now, next_uuid,
          call, response, issued, handled, lock, threads, sync_log, client>>

\* sync ids a caller may present: one a response carried, the one uuid4
\* returns next, or 0, which uuid4 never returns
SyncIdParams == 0 .. next_uuid

NoResponse == [returned |-> FALSE]

\* ------------------------------------------------------------ common/auth
hash_password(password) == <<"sha256", password>>

\* a username missing from the users file passes
verify_user_UnknownAccepted(username, password, users_file) ==
    IF username \in DOMAIN users_file
    THEN users_file[username] = hash_password(password)
    ELSE TRUE

verify_user(username, password, users_file) ==
    IF username \in DOMAIN users_file
    THEN users_file[username] = hash_password(password)
    ELSE FALSE

\* base64: the encoded text is told apart from text that is not base64
b64encode(text) == <<"b64", text>>

\* "Basic " + b64encode(username + ":" + password)
create_auth_header(username, password) ==
    <<"Basic ", b64encode(<<username, ":", password>>)>>

\* a header is <<>> when absent, else <<scheme, rest>>; every header that is
\* not Basic, not base64 or without ":" gives ("", "")
parse_auth_header(auth_header) ==
    IF auth_header = <<>> THEN <<"", "">>
    ELSE IF auth_header[1] # "Basic " THEN <<"", "">>
    ELSE IF auth_header[2][1] # "b64" THEN <<"", "">>
    ELSE LET decoded == auth_header[2][2]
         IN  IF Len(decoded) = 3 /\ decoded[2] = ":"
             THEN <<decoded[1], decoded[3]>>
             ELSE <<"", "">>

\* -------------------------------------------------------- common/protocol
\* data and error are <<>> for None and <<v>> for a value v
create_response(success, data, error) ==
    [k \in {"success", "timestamp"}
           \cup (IF data # <<>> THEN {"data"} ELSE {})
           \cup (IF error # <<>> THEN {"error"} ELSE {}) |->
        CASE k = "success" -> success
          [] k = "timestamp" -> now
          [] k = "data" -> data[1]
          [] k = "error" -> error[1]]

\* the id sent is not the one the caller passed in
create_sync_response_OtherId(success, file_content, version, sync_id) ==
    create_response(success,
                    <<[sync_id |-> sync_id + 1, timestamp |-> now,
                       content |-> file_content, version |-> version]>>,
                    <<>>)

create_sync_response(success, file_content, version, sync_id) ==
    create_response(success,
                    <<[sync_id |-> sync_id, timestamp |-> now,
                       content |-> file_content, version |-> version]>>,
                    <<>>)

\* ---------------------------------------------------- server/file_handler
md5(text) == <<"md5", text>>

\* the version of the file as first created, never computed again
get_version_Cached == md5(DefaultContent)

get_version == md5(content)

get_last_modified == last_modified

get_file_status ==
    [content |-> content, version |-> md5(content),
     last_modified |-> get_last_modified]

\* ------------------------------------------------------ server/dispatcher
\* client_ip and username stored in each other's place
SyncRecord_Swapped(sync_id, client_ip, username) ==
    [sync_id |-> sync_id, client_ip |-> username, username |-> client_ip,
     request_time |-> now, confirmed |-> FALSE, acknowledged |-> FALSE,
     confirmation_time |-> None, acknowledgment_time |-> None]

SyncRecord(sync_id, client_ip, username) ==
    [sync_id |-> sync_id, client_ip |-> client_ip, username |-> username,
     request_time |-> now, confirmed |-> FALSE, acknowledged |-> FALSE,
     confirmation_time |-> None, acknowledgment_time |-> None]

\* a check of the credentials that stops at the username
authenticate_UserOnly(username, password, client_ip) ==
    username \in DOMAIN users

\* a user with an entry in the ledger is taken as authenticated
authenticate_Session(username, password, client_ip) ==
    \/ verify_user(username, password, users)
    \/ \E s \in DOMAIN sync_records : sync_records[s].username = username

authenticate(username, password, client_ip) ==
    verify_user(username, password, users)

\* an id generator that hands out the previous value again
\* the id counted from the size of the ledger
uuid4_FromLedger == Cardinality(DOMAIN sync_records) + 1

uuid4_Reused == IF next_uuid > 1 THEN next_uuid - 1 ELSE next_uuid

\* str(uuid.uuid4()): a value no earlier call returned
uuid4 == next_uuid

\* a record stored whatever the protocol
TracksSync_Always(protocol) == TRUE

\* a record stored for everything that is not "R"
TracksSync_AllButR(protocol) == protocol # "R"

\* the protocols for which get_file_content stores a record
TracksSync(protocol) == protocol \in {"RR", "RRA"}

\* a lookup that drops a record once the clock has moved on
KnownSyncId_Expiring(sync_id) ==
    /\ sync_id \in DOMAIN sync_records
    /\ sync_records[sync_id].request_time = now

\* a lookup that accepts every id
KnownSyncId_Any(sync_id) == TRUE

\* the lookup guarding confirm_sync and acknowledge_sync
KnownSyncId(sync_id) == sync_id \in DOMAIN sync_records

\* the timestamp stamped, the flag forgotten
Confirm_NoFlag(record) ==
    [record EXCEPT !.confirmation_time = now]

Confirm(record) ==
    [record EXCEPT !.confirmed = TRUE, !.confirmation_time = now]

\* the flag is set and the time of the acknowledgment is not kept
Acknowledge_NoTime(record) ==
    [record EXCEPT !.acknowledged = TRUE]

\* acknowledging moves the record out of Confirmed
Acknowledge_ClearsConfirmed(record) ==
    [record EXCEPT !.acknowledged = TRUE, !.acknowledgment_time = now,
                   !.confirmed = FALSE]

Acknowledge(record) ==
    [record EXCEPT !.acknowledged = TRUE, !.acknowledgment_time = now]

\* the ledger thrown away when a record is stored
StoreRecord_Alone(sync_id, record) == (sync_id :> record)

\* self.sync_records[sync_id] = record
StoreRecord(sync_id, record) == (sync_id :> record) @@ sync_records

\* io_ok = FALSE: reading the master file raises
get_file_content(username, password, client_ip, protocol, io_ok) ==
    /\ call' = [method |-> "get_file_content", protocol |-> protocol]
    /\ IF ~authenticate(username, password, client_ip)
       THEN /\ response' = create_response(FALSE, <<>>,
                                           <<(<<"Authentication failed">>)>>)
            /\ UNCHANGED <<sync_records, next_uuid, issued>>
       ELSE IF ~io_ok
       THEN /\ response' = create_response(FALSE, <<>>,
                              <<(<<"Error getting file content: ", "OSError">>)>>)
            /\ UNCHANGED <<sync_records, next_uuid, issued>>
       ELSE LET file_status == get_file_status
                sync_id == uuid4
            IN  /\ next_uuid' = next_uuid + 1
                /\ sync_records' =
                      IF TracksSync(protocol)
                      THEN StoreRecord(sync_id,
                                       SyncRecord(sync_id, client_ip, username))
                      ELSE sync_records
                /\ issued' = (sync_id :> protocol) @@ issued
                /\ response' = create_sync_response(TRUE, file_status.content,
                                                    file_status.version, sync_id)
    /\ UNCHANGED <<users, content, last_modified, now>>

\* a version check that opens an entry as get_file_content does
check_master_version_Tracked(username, password, client_ip, io_ok) ==
    /\ call' = [method |-> "check_master_version"]
    /\ response' = create_response(TRUE,
                        <<[version |-> get_version,
                           last_modified |-> get_last_modified]>>, <<>>)
    /\ sync_records' = StoreRecord(uuid4,
                                   SyncRecord(uuid4, client_ip, username))
    /\ next_uuid' = next_uuid + 1
    /\ UNCHANGED <<users, content, last_modified, now, issued>>

check_master_version(username, password, client_ip, io_ok) ==
    /\ call' = [method |-> "check_master_version"]
    /\ IF ~authenticate(username, password, client_ip)
       THEN response' = create_response(FALSE, <<>>,
                                        <<(<<"Authentication failed">>)>>)
       ELSE IF ~io_ok
       THEN response' = create_response(FALSE, <<>>,
                            <<(<<"Error checking version: ", "OSError">>)>>)
       ELSE response' = create_response(TRUE,
                            <<[version |-> get_version,
                               last_modified |-> get_last_modified]>>, <<>>)
    /\ UNCHANGED <<sync_records, users, content, last_modified, now,
                   next_uuid, issued>>

\* only the user of the entry may confirm it
confirm_sync_OwnerOnly(username, password, sync_id, client_ip) ==
    /\ call' = [method |-> "confirm_sync", sync_id |-> sync_id]
    /\ IF ~authenticate(username, password, client_ip)
       THEN /\ response' = create_response(FALSE, <<>>,
                                           <<(<<"Authentication failed">>)>>)
            /\ UNCHANGED sync_records
       ELSE IF \/ ~KnownSyncId(sync_id)
               \/ sync_records[sync_id].username # username
       THEN /\ response' = create_response(FALSE, <<>>,
                                  <<(<<"Unknown sync ID: ", sync_id>>)>>)
            /\ UNCHANGED sync_records
       ELSE /\ sync_records' =
                  [sync_records EXCEPT ![sync_id] = Confirm(@)]
            /\ response' = create_response(TRUE,
                               <<[sync_id |-> sync_id, confirmed |-> TRUE]>>,
                               <<>>)
    /\ UNCHANGED <<users, content, last_modified, now, next_uuid, issued>>

confirm_sync(username, password, sync_id, client_ip) ==
    /\ call' = [method |-> "confirm_sync", sync_id |-> sync_id]
    /\ IF ~authenticate(username, password, client_ip)
       THEN /\ response' = create_response(FALSE, <<>>,
                                           <<(<<"Authentication failed">>)>>)
            /\ UNCHANGED sync_records
       ELSE IF ~KnownSyncId(sync_id)
       THEN /\ response' = create_response(FALSE, <<>>,
                                  <<(<<"Unknown sync ID: ", sync_id>>)>>)
            /\ UNCHANGED sync_records
       ELSE /\ sync_records' =
                  [sync_records EXCEPT ![sync_id] = Confirm(@)]
            /\ response' = create_response(TRUE,
                               <<[sync_id |-> sync_id, confirmed |-> TRUE]>>,
                               <<>>)
    /\ UNCHANGED <<users, content, last_modified, now, next_uuid, issued>>

acknowledge_sync(username, password, sync_id, client_ip) ==
    /\ call' = [method |-> "acknowledge_sync", sync_id |-> sync_id]
    /\ IF ~authenticate(username, password, client_ip)
       THEN /\ response' = create_response(FALSE, <<>>,
                                           <<(<<"Authentication failed">>)>>)
            /\ UNCHANGED sync_records
       ELSE IF ~KnownSyncId(sync_id)
       THEN /\ response' = create_response(FALSE, <<>>,
                                  <<(<<"Unknown sync ID: ", sync_id>>)>>)
            /\ UNCHANGED sync_records
       ELSE /\ sync_records' =
                  [sync_records EXCEPT ![sync_id] = Acknowledge(@)]
            /\ response' = create_response(TRUE,
                               <<[sync_id |-> sync_id, acknowledged |-> TRUE]>>,
                               <<>>)
    /\ UNCHANGED <<users, content, last_modified, now, next_uuid, issued>>

\* the four methods behind the endpoints of the transport
RemoteOperations ==
    {"get_file_content", "check_master_version", "confirm_sync",
     "acknowledge_sync"}

\* the attributes of a Dispatcher that hold data
DataAttributes == {"file_handler", "users_file", "log_file", "sync_records"}

\* the names hasattr(self, method) accepts
DispatcherAttributes ==
    RemoteOperations \cup DataAttributes \cup
    {"_setup_logging", "log_sync_attempt", "handle_request", "authenticate"}

MethodNames == DispatcherAttributes \cup {"no_such_method"}

\* the keyword parameters of a method: whether it takes client_ip, the ones it
\* requires and the ones with a default
Signature(method) ==
    CASE method = "get_file_content" ->
            [client_ip |-> TRUE, required |-> {"username", "password"},
             optional |-> {"protocol"}]
      [] method = "check_master_version" ->
            [client_ip |-> TRUE, required |-> {"username", "password"},
             optional |-> {}]
      [] method \in {"confirm_sync", "acknowledge_sync"} ->
            [client_ip |-> TRUE,
             required |-> {"username", "password", "sync_id"},
             optional |-> {}]
      [] method = "authenticate" ->
            [client_ip |-> TRUE, required |-> {"username", "password"},
             optional |-> {}]
      [] method = "log_sync_attempt" ->
            [client_ip |-> TRUE,
             required |-> {"username", "operation", "success"},
             optional |-> {"error"}]
      [] method = "handle_request" ->
            [client_ip |-> TRUE, required |-> {"method", "params"},
             optional |-> {}]
      [] OTHER ->
            [client_ip |-> FALSE, required |-> {}, optional |-> {}]

\* handler(client_ip=client_ip, **params) binds its arguments; a TypeError
\* otherwise
Binds(method, params) ==
    /\ Signature(method).client_ip
    /\ Signature(method).required \subseteq DOMAIN params
    /\ DOMAIN params \subseteq
           Signature(method).required \cup Signature(method).optional

\* handle_request answers by itself with a failure
Refuse(method, error) ==
    /\ response' = create_response(FALSE, <<>>, <<error>>)
    /\ call' = [method |-> "handle_request", name |-> method]
    /\ UNCHANGED <<sync_records, users, content, last_modified, now, next_uuid,
                   issued>>

\* handle_request returns what the method returned, not a response
Return(method, value) ==
    /\ response' = [value |-> value]
    /\ call' = [method |-> "handle_request", name |-> method]
    /\ UNCHANGED <<sync_records, users, content, last_modified, now, next_uuid,
                   issued>>

handle_request(method, params, client_ip, io_ok) ==
    IF method \notin DispatcherAttributes
    THEN Refuse(method, <<"Method '", method, "' not found">>)
    ELSE IF method \in DataAttributes
    THEN Refuse(method, <<"'", method, "' is not a callable method">>)
    ELSE IF ~Binds(method, params)
    THEN Refuse(method, <<"Error processing request: ", "TypeError", method>>)
    ELSE CASE method = "get_file_content" ->
                 get_file_content(params.username, params.password, client_ip,
                                  IF "protocol" \in DOMAIN params
                                  THEN params.protocol ELSE "R",
                                  io_ok)
           [] method = "check_master_version" ->
                 check_master_version(params.username, params.password,
                                      client_ip, io_ok)
           [] method = "confirm_sync" ->
                 confirm_sync(params.username, params.password,
                              params.sync_id, client_ip)
           [] method = "acknowledge_sync" ->
                 acknowledge_sync(params.username, params.password,
                                  params.sync_id, client_ip)
           [] method = "authenticate" ->
                 Return(method,
                        authenticate(params.username, params.password,
                                     client_ip))
           [] method = "log_sync_attempt" ->
                 Return(method, None)
           \* handle_request: no params of the inputs bind it
           [] OTHER -> FALSE

\* --------------------------------------------- the lines written to sync.log
\* the line "SYNC status - IP: .. - User: .. - Operation: ..[ - Error: ..]";
\* operation and error are texts in pieces, error <<>> for None
log_sync_attempt(client_ip, username, operation, success, error) ==
    [status |-> IF success THEN "SUCCESS" ELSE "FAILED", ip |-> client_ip,
     user |-> username, operation |-> operation, error |-> error]

\* authenticate logs a failure only
authenticate_log(username, password, client_ip) ==
    IF authenticate(username, password, client_ip)
    THEN <<>>
    ELSE <<log_sync_attempt(client_ip, username, <<"authentication">>, FALSE,
                            <<"Invalid credentials">>)>>

get_file_content_log(username, password, client_ip, protocol, io_ok) ==
    IF ~authenticate(username, password, client_ip)
    THEN authenticate_log(username, password, client_ip)
    ELSE <<log_sync_attempt(client_ip, username,
                            <<"get_file_content", " (", protocol, ")">>,
                            io_ok,
                            IF io_ok THEN <<>> ELSE <<"OSError">>)>>

check_master_version_log(username, password, client_ip, io_ok) ==
    IF ~authenticate(username, password, client_ip)
    THEN authenticate_log(username, password, client_ip)
    ELSE <<log_sync_attempt(client_ip, username, <<"check_master_version">>,
                            io_ok,
                            IF io_ok THEN <<>> ELSE <<"OSError">>)>>

\* confirm_sync and acknowledge_sync log alike, each under its name
sync_step_log(method, username, password, sync_id, client_ip) ==
    IF ~authenticate(username, password, client_ip)
    THEN authenticate_log(username, password, client_ip)
    ELSE <<log_sync_attempt(client_ip, username, <<method>>,
                            KnownSyncId(sync_id),
                            IF KnownSyncId(sync_id) THEN <<>>
                            ELSE <<"Unknown sync ID: ", sync_id>>)>>

\* the lines one call of handle_request writes, in order
handle_request_log(method, params, client_ip, io_ok) ==
    IF method \notin DispatcherAttributes
    THEN <<log_sync_attempt(client_ip, params.username, <<method>>, FALSE,
                            <<"Method not found">>)>>
    ELSE IF method \in DataAttributes
    THEN <<log_sync_attempt(client_ip, params.username, <<method>>, FALSE,
                            <<"Not a callable method">>)>>
    ELSE IF ~Binds(method, params)
    THEN <<log_sync_attempt(client_ip, params.username, <<method>>, FALSE,
                            <<"TypeError", method>>)>>
    ELSE CASE method = "get_file_content" ->
                 get_file_content_log(params.username, params.password,
                                      client_ip,
                                      IF "protocol" \in DOMAIN params
                                      THEN params.protocol ELSE "R",
                                      io_ok)
           [] method = "check_master_version" ->
                 check_master_version_log(params.username, params.password,
                                          client_ip, io_ok)
           [] method \in {"confirm_sync", "acknowledge_sync"} ->
                 sync_step_log(method, params.username, params.password,
                               params.sync_id, client_ip)
           [] method = "authenticate" ->
                 authenticate_log(params.username, params.password, client_ip)
           [] method = "log_sync_attempt" ->
                 <<log_sync_attempt(client_ip, params.username,
                                    <<params.operation>>, params.success,
                                    <<>>)>>
           [] OTHER -> <<>>

\* --------------------------------------------------------- server/threads
ENDPOINTS ==
    ("/file/content" :> "get_file_content") @@
    ("/file/version" :> "check_master_version") @@
    ("/sync/confirm" :> "confirm_sync") @@
    ("/sync/acknowledge" :> "acknowledge_sync")

EndpointPaths == DOMAIN ENDPOINTS \cup {"/admin"}

\* an Authorization header that is absent, of another scheme, not base64, or
\* without the ":" separator
MalformedHeaders ==
    {<<>>, <<"Bearer ", "token">>, <<"Basic ", <<"not base64">>>>,
     <<"Basic ", b64encode(<<"admin">>)>>}

AuthHeaders ==
    MalformedHeaders \cup
    {create_auth_header(u, p) : u \in Usernames, p \in Passwords}

\* the credentials of the header replace those of the parameters
_handle_request(method_name, params, auth_header, client_ip, io_ok) ==
    LET credentials == parse_auth_header(auth_header)
    IN  handle_request(method_name,
                       [username |-> credentials[1],
                        password |-> credentials[2]] @@ params,
                       client_ip, io_ok)

\* the parameters are those of the query; every endpoint is looked up
do_GET(endpoint, params, auth_header, client_ip, io_ok) ==
    IF endpoint \notin DOMAIN ENDPOINTS
    THEN /\ response' = [success |-> FALSE,
                         error |-> <<"Unknown endpoint: ", endpoint>>]
         /\ call' = [method |-> "do_GET", endpoint |-> endpoint]
         /\ UNCHANGED <<sync_records, users, content, last_modified, now,
                        next_uuid, issued>>
    ELSE _handle_request(ENDPOINTS[endpoint], params, auth_header, client_ip,
                         io_ok)

\* the parameters are those of the body; every endpoint is looked up
do_POST(endpoint, params, auth_header, client_ip, io_ok) ==
    IF endpoint \notin DOMAIN ENDPOINTS
    THEN /\ response' = [success |-> FALSE,
                         error |-> <<"Unknown endpoint: ", endpoint>>]
         /\ call' = [method |-> "do_POST", endpoint |-> endpoint]
         /\ UNCHANGED <<sync_records, users, content, last_modified, now,
                        next_uuid, issued>>
    ELSE _handle_request(ENDPOINTS[endpoint], params, auth_header, client_ip,
                         io_ok)

\* ------------------------------------------------------ client, stub
\* the address the server sees for the client
ClientAddress == "10.0.0.1"

\* the monitor before client_main has built it; no slave file yet
NotStarted ==
    [pc |-> "start", username |-> "", password |-> "", protocol |-> "",
     slave |-> <<>>, result |-> NoResponse, sync_response |-> NoResponse,
     sent |-> <<>>]

\* the status line the handler sends with a result
StatusCode(result) ==
    IF "success" \in DOMAIN result /\ result.success THEN 200 ELSE 400

\* what urlopen hands back: the body of a 200, else a failure that keeps
\* only the error of the body
urlopen(result) ==
    IF StatusCode(result) = 200
    THEN result
    ELSE [success |-> FALSE,
          error |-> IF "error" \in DOMAIN result
                    THEN result.error
                    ELSE <<"HTTP Error: ", "400">>]

\* the server could not be reached: nothing happens there
URLError ==
    /\ call' = [method |-> "URLError"]
    /\ response' = NoResponse
    /\ UNCHANGED <<sync_records, users, content, last_modified, now, next_uuid,
                   issued>>

\* a version check leaves nothing behind on the server: only the other
\* requests count towards the bound
_make_get_request(endpoint, params, net_ok, io_ok) ==
    /\ endpoint # "/file/version" => handled < MaxRequests
    /\ handled' = IF endpoint # "/file/version" THEN handled + 1 ELSE handled
    /\ IF net_ok
       THEN do_GET(endpoint, params,
                   create_auth_header(client.username, client.password),
                   ClientAddress, io_ok)
       ELSE URLError

_make_post_request(endpoint, data, net_ok, io_ok) ==
    /\ handled < MaxRequests
    /\ handled' = handled + 1
    /\ IF net_ok
       THEN do_POST(endpoint, data,
                    create_auth_header(client.username, client.password),
                    ClientAddress, io_ok)
       ELSE URLError

\* the dictionary the stub returns for the request of this step
Returned(net_ok) ==
    IF net_ok
    THEN urlopen(response')
    ELSE [success |-> FALSE, error |-> <<"Connection error: ", "refused">>]

create_confirmation(sync_id) ==
    [confirmation |-> TRUE, sync_id |-> sync_id, timestamp |-> now]

create_acknowledgment(sync_id) ==
    [acknowledgment |-> TRUE, sync_id |-> sync_id, timestamp |-> now]

\* ------------------------------------------------- client/sync_monitor
\* every result is taken for a success
succeeded_Always(result) == TRUE

\* result.get("success")
succeeded(result) == "success" \in DOMAIN result /\ result.success

\* the slave file is never looked at: there is no local version
_read_slave_version_None == <<>>

\* None when the slave file does not exist
_read_slave_version ==
    IF client.slave = <<>> THEN <<>> ELSE md5(client.slave[1])

\* RR acknowledges and RRA confirms
Then_Swapped(pc, protocol) ==
    CASE pc = "fetch" -> "save"
      [] pc = "save" -> IF protocol = "RR" THEN "acknowledge"
                        ELSE IF protocol = "RRA" THEN "confirm"
                        ELSE "sleep"
      [] OTHER -> "sleep"

\* the confirmation is sent as soon as the content has arrived
Then_ConfirmFirst(pc, protocol) ==
    CASE pc = "fetch" -> IF protocol = "RR" THEN "confirm"
                         ELSE IF protocol = "RRA" THEN "acknowledge"
                         ELSE "save"
      [] pc = "save" -> "sleep"
      [] OTHER -> IF protocol = "R" THEN "sleep" ELSE "save"

\* the statement of check_for_updates that follows a completed one
Then(pc, protocol) ==
    CASE pc = "fetch" -> "save"
      [] pc = "save" -> IF protocol = "RR" THEN "confirm"
                        ELSE IF protocol = "RRA" THEN "acknowledge"
                        ELSE "sleep"
      [] OTHER -> "sleep"

\* client_main: the credentials and the protocol of the command line
main ==
    /\ client.pc = "start"
    /\ \E u \in Usernames, p \in Passwords, proto \in SyncProtocol :
          client' = [client EXCEPT !.pc = "poll", !.username = u,
                                   !.password = p, !.protocol = proto]
    /\ UNCHANGED <<sync_records, users, content, last_modified, now, next_uuid,
                   call, response, issued, handled, lock, threads, sync_log>>

\* check_for_updates up to the comparison of the two versions
CheckVersion ==
    /\ client.pc = "poll"
    /\ \E net_ok \in BOOLEAN, io_ok \in BOOLEAN :
          /\ _make_get_request("/file/version", <<>>, net_ok, io_ok)
          /\ LET version_info == Returned(net_ok)
             IN  client' =
                   [client EXCEPT
                      !.result = version_info,
                      !.pc = IF ~succeeded(version_info) THEN "sleep"
                             ELSE IF "data" \notin DOMAIN version_info
                             THEN "stopped"
                             ELSE IF _read_slave_version
                                       # version_info.data.version
                             THEN "fetch"
                             ELSE "sleep"]
    /\ UNCHANGED <<lock, threads, sync_log>>

\* check_for_updates: the content is asked for
FetchContent ==
    /\ client.pc = "fetch"
    /\ \E net_ok \in BOOLEAN, io_ok \in BOOLEAN :
          /\ _make_get_request("/file/content",
                               [protocol |-> client.protocol], net_ok, io_ok)
          /\ LET sync_response == Returned(net_ok)
             IN  client' =
                   [client EXCEPT
                      !.result = sync_response,
                      !.sync_response = sync_response,
                      !.pc = IF ~succeeded(sync_response) THEN "sleep"
                             ELSE IF "data" \notin DOMAIN sync_response
                             THEN "stopped"
                             ELSE Then("fetch", client.protocol)]
    /\ UNCHANGED <<lock, threads, sync_log>>

\* the content is dropped and the slave file left as it was
SaveToSlave_Dropped ==
    /\ client.pc = "save"
    /\ client' = [client EXCEPT !.pc = Then("save", client.protocol)]
    /\ UNCHANGED <<sync_records, users, content, last_modified, now, next_uuid,
                   call, response, issued, handled, lock, threads, sync_log>>

\* _save_to_slave; an OSError leaves check_for_updates and run_loop, with the
\* file as it was or already emptied by open(..., "w")
SaveToSlave ==
    /\ client.pc = "save"
    /\ \E fs_ok \in BOOLEAN :
          IF fs_ok
          THEN client' =
                 [client EXCEPT
                    !.slave = <<client.sync_response.data.content>>,
                    !.pc = Then("save", client.protocol)]
          ELSE \E left \in {client.slave, <<"">>} :
                  client' = [client EXCEPT !.slave = left, !.pc = "stopped"]
    /\ UNCHANGED <<sync_records, users, content, last_modified, now, next_uuid,
                   call, response, issued, handled, lock, threads, sync_log>>

\* stub.confirm_sync(sync_id); what it returns is dropped
SendConfirmation ==
    /\ client.pc = "confirm"
    /\ LET sync_id == client.sync_response.data.sync_id
       IN  /\ \E net_ok \in BOOLEAN, io_ok \in BOOLEAN :
                 /\ _make_post_request("/sync/confirm",
                                       create_confirmation(sync_id), net_ok,
                                       io_ok)
                 /\ client' =
                      [client EXCEPT
                         !.result = Returned(net_ok),
                         !.sent = Append(@, [operation |-> "confirm_sync",
                                             sync_id |-> sync_id]),
                         !.pc = Then("confirm", client.protocol)]
    /\ UNCHANGED <<lock, threads, sync_log>>

\* time.sleep(1), then stub.acknowledge_sync(sync_id)
SendAcknowledgment ==
    /\ client.pc = "acknowledge"
    /\ LET sync_id == client.sync_response.data.sync_id
       IN  /\ \E net_ok \in BOOLEAN, io_ok \in BOOLEAN :
                 /\ _make_post_request("/sync/acknowledge",
                                       create_acknowledgment(sync_id), net_ok,
                                       io_ok)
                 /\ client' =
                      [client EXCEPT
                         !.result = Returned(net_ok),
                         !.sent = Append(@, [operation |-> "acknowledge_sync",
                                             sync_id |-> sync_id]),
                         !.pc = Then("acknowledge", client.protocol)]
    /\ UNCHANGED <<lock, threads, sync_log>>

\* run_loop: time.sleep(interval), then the next check_for_updates
Sleep ==
    /\ client.pc = "sleep"
    /\ client' = [client EXCEPT !.pc = "poll"]
    /\ UNCHANGED <<sync_records, users, content, last_modified, now, next_uuid,
                   call, response, issued, handled, lock, threads, sync_log>>

\* ------------------------------------ server/threads, the serving loop
\* ThreadedHTTPServer is an HTTPServer and nothing more: serve_forever runs
\* each handler to its end in the one server thread before it accepts again
ServerThreadFree ==
    \A o \in Threads : threads[o].pc \notin {"handling", "stalled"}

\* a client connects and its request waits to be accepted
Connect(t) ==
    /\ threads[t].pc = "idle"
    /\ handled + Cardinality({o \in Threads : threads[o].pc # "idle"})
          < MaxRequests
    /\ threads' = [threads EXCEPT ![t].pc = "pending"]
    /\ UNCHANGED <<sync_records, users, content, last_modified, now, next_uuid,
                   call, response, issued, handled, lock, sync_log, client>>

\* the request is accepted and its handler starts; a handler whose client
\* sends nothing more stays in its read, no timeout being set
process_request(t) ==
    /\ threads[t].pc = "pending"
    /\ ServerThreadFree
    /\ \E pc \in {"handling", "stalled"} :
          threads' = [threads EXCEPT ![t].pc = pc]
    /\ UNCHANGED <<sync_records, users, content, last_modified, now, next_uuid,
                   call, response, issued, handled, lock, sync_log, client>>

\* do_GET or do_POST runs to its end and the response is written
finish_request(t) ==
    /\ threads[t].pc = "handling"
    /\ threads' = [threads EXCEPT ![t].pc = "idle"]
    /\ handled' = handled + 1
    /\ \E e \in DOMAIN ENDPOINTS, p \in Passwords, ip \in ClientIps,
          io_ok \in BOOLEAN :
          LET h == create_auth_header("admin", p)
          IN  \/ do_GET(e, <<>>, h, ip, io_ok)
              \/ do_GET(e, [protocol |-> "RR"], h, ip, io_ok)
              \/ \E s \in SyncIdParams : do_POST(e, [sync_id |-> s], h, ip,
                                                 io_ok)
    /\ UNCHANGED <<lock, sync_log, client>>

\* ------------------------------------- file_handler, one step at a time
\* the master file between open(file_path, 'w') and the end of f.write
Truncated == ""

\* a thread outside any call; states is not of the code: the versions and
\* times the master file has had since the call of the thread began
Idle ==
    [pc |-> "idle", client_ip |-> "", username |-> "", protocol |-> "",
     content |-> "", version |-> <<>>, last_modified |-> None, states |-> {}]

\* the lock is taken without waiting for its owner
CanAcquire_Unlocked(t) == TRUE

\* threading.RLock: free, or owned by the thread that asks
CanAcquire(t) == lock.owner \in {0, t}

Acquire(t) ==
    /\ CanAcquire(t)
    /\ lock' = [owner |-> t,
                count |-> IF lock.owner = t THEN lock.count + 1 ELSE 1]

\* the with block is left with the lock still owned
Release_Kept(t) == lock' = lock

Release(t) ==
    lock' = IF lock.count = 1
            THEN [owner |-> 0, count |-> 0]
            ELSE [owner |-> lock.owner, count |-> lock.count - 1]

\* get_file_content, authenticated, about to call get_file_status
GetFileContentBegin(t) ==
    /\ threads[t].pc = "idle"
    /\ handled < MaxRequests
    /\ handled' = handled + 1
    /\ \E u \in Usernames, p \in Passwords, ip \in ClientIps,
          proto \in SyncProtocol :
          /\ authenticate(u, p, ip)
          /\ threads' = [threads EXCEPT ![t] =
                            [Idle EXCEPT !.pc = "get_file_status",
                                         !.client_ip = ip, !.username = u,
                                         !.protocol = proto]]
    /\ UNCHANGED <<sync_records, users, content, last_modified, now, next_uuid,
                   call, response, issued, lock, sync_log, client>>

\* get_file_status: with self.lock
GetFileStatusEnter(t) ==
    /\ threads[t].pc = "get_file_status"
    /\ Acquire(t)
    /\ threads' = [threads EXCEPT ![t].pc = "get_content"]
    /\ UNCHANGED <<sync_records, users, content, last_modified, now, next_uuid,
                   call, response, issued, handled, sync_log, client>>

\* content = self.get_content(); version = md5(content); the lock, owned
\* already, is taken and given back inside get_content
GetFileStatusRead(t) ==
    /\ threads[t].pc = "get_content"
    /\ CanAcquire(t)
    /\ threads' = [threads EXCEPT ![t].pc = "get_last_modified",
                                  ![t].content = content,
                                  ![t].version = md5(content)]
    /\ UNCHANGED <<sync_records, users, content, last_modified, now, next_uuid,
                   call, response, issued, handled, lock, sync_log, client>>

\* last_modified = self.get_last_modified(); the status is returned and the
\* lock given back
GetFileStatusExit(t) ==
    /\ threads[t].pc = "get_last_modified"
    /\ CanAcquire(t)
    /\ Release(t)
    /\ threads' = [threads EXCEPT ![t].pc = "respond",
                                  ![t].last_modified = last_modified]
    /\ UNCHANGED <<sync_records, users, content, last_modified, now, next_uuid,
                   call, response, issued, handled, sync_log, client>>

\* the rest of get_file_content: the id, the entry, the response
GetFileContentRespond(t) ==
    LET sync_id == uuid4
        my == threads[t]
    IN  /\ my.pc = "respond"
        /\ next_uuid' = next_uuid + 1
        /\ sync_records' = IF TracksSync(my.protocol)
                           THEN StoreRecord(sync_id,
                                            SyncRecord(sync_id, my.client_ip,
                                                       my.username))
                           ELSE sync_records
        /\ response' = create_sync_response(TRUE, my.content, my.version,
                                            sync_id)
        /\ issued' = (sync_id :> my.protocol) @@ issued
        /\ call' = [method |-> "get_file_content", protocol |-> my.protocol]
        /\ threads' = [threads EXCEPT ![t] = Idle]
        /\ UNCHANGED <<users, content, last_modified, now, handled, lock,
                       sync_log, client>>

\* update_content: with self.lock
UpdateContentBegin(t) ==
    /\ threads[t].pc = "idle"
    /\ handled < MaxRequests
    /\ handled' = handled + 1
    /\ Acquire(t)
    /\ \E c \in Contents :
          threads' = [threads EXCEPT ![t] =
                         [Idle EXCEPT !.pc = "open", !.content = c]]
    /\ UNCHANGED <<sync_records, users, content, last_modified, now, next_uuid,
                   call, response, issued, sync_log, client>>

\* open(self.file_path, 'w') empties the file
UpdateContentOpen(t) ==
    /\ threads[t].pc = "open"
    /\ content' = Truncated
    /\ last_modified' = now
    /\ threads' = [threads EXCEPT ![t].pc = "write"]
    /\ UNCHANGED <<sync_records, users, now, next_uuid, call, response, issued,
                   handled, lock, sync_log, client>>

\* f.write(content), the file closed and the lock given back
UpdateContentWrite(t) ==
    /\ threads[t].pc = "write"
    /\ content' = threads[t].content
    /\ last_modified' = now
    /\ Release(t)
    /\ threads' = [threads EXCEPT ![t] = Idle]
    /\ UNCHANGED <<sync_records, users, now, next_uuid, call, response, issued,
                   handled, sync_log, client>>

\* check_master_version, an authenticated call entering its try block
CheckMasterVersionBegin(t) ==
    /\ threads[t].pc = "idle"
    /\ handled < MaxRequests
    /\ handled' = handled + 1
    /\ \E u \in Usernames, p \in Passwords, ip \in ClientIps :
          /\ authenticate(u, p, ip)
          /\ threads' = [threads EXCEPT ![t] =
                            [Idle EXCEPT !.pc = "version",
                                         !.client_ip = ip, !.username = u,
                                         !.states = {<<get_version,
                                                       get_last_modified>>}]]
    /\ UNCHANGED <<sync_records, users, content, last_modified, now, next_uuid,
                   call, response, issued, lock, sync_log, client>>

\* version = self.file_handler.get_version(): the lock is taken, the file
\* read and the lock given back
CheckMasterVersionGetVersion(t) ==
    /\ threads[t].pc = "version"
    /\ CanAcquire(t)
    /\ threads' = [threads EXCEPT ![t].pc = "last_modified",
                                  ![t].version = get_version]
    /\ UNCHANGED <<sync_records, users, content, last_modified, now, next_uuid,
                   call, response, issued, handled, lock, sync_log, client>>

\* last_modified = self.file_handler.get_last_modified(): the lock is taken
\* a second time, the time of the file read and the lock given back
CheckMasterVersionGetLastModified(t) ==
    /\ threads[t].pc = "last_modified"
    /\ CanAcquire(t)
    /\ threads' = [threads EXCEPT ![t].pc = "return",
                                  ![t].last_modified = get_last_modified]
    /\ UNCHANGED <<sync_records, users, content, last_modified, now, next_uuid,
                   call, response, issued, handled, lock, sync_log, client>>

\* the response with the two values read
CheckMasterVersionReturn(t) ==
    LET my == threads[t]
    IN  /\ my.pc = "return"
        /\ response' = create_response(TRUE,
                             <<[version |-> my.version,
                                last_modified |-> my.last_modified]>>, <<>>)
        /\ call' = [method |-> "check_master_version"]
        /\ threads' = [threads EXCEPT ![t] = Idle]
        /\ UNCHANGED <<sync_records, users, content, last_modified, now,
                       next_uuid, issued, handled, lock, sync_log, client>>

\* update_content by a thread of its own, from taking the lock to giving it
\* back; the threads inside check_master_version note the new state
UpdateContentLocked ==
    /\ lock.owner = 0
    /\ \E c \in Contents :
          /\ content' = c
          /\ last_modified' = now
          /\ threads' = [t \in Threads |->
                            IF threads[t].pc = "idle"
                            THEN threads[t]
                            ELSE [threads[t] EXCEPT
                                    !.states = @ \cup {<<md5(c), now>>}]]
    /\ call' = [method |-> "update_content"]
    /\ response' = NoResponse
    /\ UNCHANGED <<sync_records, users, now, next_uuid, issued, handled, lock,
                   sync_log, client>>

\* ------------------------------------------------------------ environment
\* FileHandler.update_content: the master file is rewritten
update_content(new_content) ==
    /\ content' = new_content
    /\ last_modified' = now
    /\ call' = [method |-> "update_content"]
    /\ response' = NoResponse
    /\ UNCHANGED <<sync_records, users, now, next_uuid, issued, handled, lock,
                   threads, sync_log, client>>

\* auth.add_user: a user is added, or its password replaced
add_user(username, password) ==
    /\ users' = (username :> hash_password(password)) @@ users
    /\ users' # users
    /\ call' = [method |-> "add_user"]
    /\ response' = NoResponse
    /\ UNCHANGED <<sync_records, content, last_modified, now, next_uuid,
                   issued, handled, lock, threads, sync_log, client>>

\* the wall clock read by time.time() advances
Tick ==
    /\ now < MaxTime
    /\ now' = now + 1
    /\ call' = [method |-> "tick"]
    /\ response' = NoResponse
    /\ UNCHANGED <<sync_records, users, content, last_modified, next_uuid,
                   issued, handled, lock, threads, sync_log, client>>

\* ---------------------------------------------------------- specification
Init ==
    /\ sync_records = <<>>
    /\ users = ("admin" :> hash_password("password"))
    /\ content = DefaultContent
    /\ last_modified = 0
    /\ now = 0
    /\ next_uuid = 1
    /\ call = [method |-> "none"]
    /\ response = NoResponse
    /\ issued = <<>>
    /\ handled = 0
    /\ lock = [owner |-> 0, count |-> 0]
    /\ threads = [t \in Threads |-> Idle]
    /\ sync_log = <<>>
    /\ client = NotStarted

\* one more request is accepted and handled to completion
Serve ==
    /\ handled < MaxRequests
    /\ handled' = handled + 1
    /\ UNCHANGED <<lock, threads, sync_log, client>>

GetFileContent ==
    /\ Serve
    /\ \E u \in Usernames, p \in Passwords, ip \in ClientIps,
       proto \in SyncProtocol, io_ok \in BOOLEAN :
        get_file_content(u, p, ip, proto, io_ok)

CheckMasterVersion ==
    /\ Serve
    /\ \E u \in Usernames, p \in Passwords, ip \in ClientIps, io_ok \in BOOLEAN :
        check_master_version(u, p, ip, io_ok)

ConfirmSync ==
    /\ Serve
    /\ \E u \in Usernames, p \in Passwords, ip \in ClientIps, s \in SyncIdParams :
        confirm_sync(u, p, s, ip)

AcknowledgeSync ==
    /\ Serve
    /\ \E u \in Usernames, p \in Passwords, ip \in ClientIps, s \in SyncIdParams :
        acknowledge_sync(u, p, s, ip)

UpdateContent == \E c \in Contents : update_content(c)

AddUser == \E u \in Usernames, p \in NewPasswords : add_user(u, p)

Next ==
    \/ GetFileContent
    \/ CheckMasterVersion
    \/ ConfirmSync
    \/ AcknowledgeSync
    \/ UpdateContent
    \/ Tick

\* the server, the clock and the writers of the master file
Spec == Init /\ [][Next]_vars

\* the requests served while the users file is edited (server_main
\* --add-user); the clock and the master file stand still
NextUsers ==
    \/ GetFileContent
    \/ CheckMasterVersion
    \/ ConfirmSync
    \/ AcknowledgeSync
    \/ AddUser

SpecUsers == Init /\ [][NextUsers]_vars

\* the parameters of a call: the credentials alone, or with one more
Credentials(u, p) == [username |-> u, password |-> p]

\* Dispatcher.handle_request called with any method name
HandleRequest ==
    /\ Serve
    /\ \E m \in MethodNames, ip \in ClientIps, io_ok \in BOOLEAN :
       \/ \E u \in Usernames, p \in Passwords :
          \/ handle_request(m, Credentials(u, p), ip, io_ok)
          \/ \E proto \in SyncProtocol :
                handle_request(m, [username |-> u, password |-> p,
                                   protocol |-> proto], ip, io_ok)
          \/ \E s \in SyncIdParams :
                handle_request(m, [username |-> u, password |-> p,
                                   sync_id |-> s], ip, io_ok)
          \/ handle_request(m, [username |-> u, password |-> p,
                                extra |-> "x"], ip, io_ok)
       \/ \E u \in Usernames :
             handle_request(m, [username |-> u, operation |-> "forged",
                                success |-> TRUE], ip, io_ok)

NextDispatch == HandleRequest \/ UpdateContent \/ Tick

\* the dispatcher called directly, with any method name
SpecDispatch == Init /\ [][NextDispatch]_vars

\* a request of the transport: the body names no parameter, a protocol, or a
\* sync_id
HttpRequest ==
    /\ Serve
    /\ \E e \in EndpointPaths, h \in AuthHeaders, ip \in ClientIps,
          io_ok \in BOOLEAN :
          \/ do_POST(e, <<>>, h, ip, io_ok)
          \/ \E proto \in SyncProtocol :
                do_POST(e, [protocol |-> proto], h, ip, io_ok)
          \/ \E s \in SyncIdParams :
                do_POST(e, [sync_id |-> s], h, ip, io_ok)

\* --add-user takes any two strings, the empty one included
AddAnyUser ==
    \E u \in {"admin", ""}, p \in NewPasswords \cup {""} : add_user(u, p)

NextHttp == HttpRequest \/ AddAnyUser

\* the transport in front of the dispatcher while the users file is edited
SpecHttp == Init /\ [][NextHttp]_vars

NextStore ==
    \/ \E t \in Threads :
          \/ GetFileContentBegin(t)
          \/ GetFileStatusEnter(t)
          \/ GetFileStatusRead(t)
          \/ GetFileStatusExit(t)
          \/ GetFileContentRespond(t)
          \/ UpdateContentBegin(t)
          \/ UpdateContentOpen(t)
          \/ UpdateContentWrite(t)
    \/ Tick

\* threads that read and rewrite the master file through one FileHandler
SpecStore == Init /\ [][NextStore]_vars

\* a GET to one of the four paths, with any of the queries clients send
Get ==
    /\ Serve
    /\ \E e \in DOMAIN ENDPOINTS, p \in Passwords, ip \in ClientIps,
          io_ok \in BOOLEAN :
          LET h == create_auth_header("admin", p)
          IN  \/ do_GET(e, <<>>, h, ip, io_ok)
              \/ \E proto \in SyncProtocol :
                    do_GET(e, [protocol |-> proto], h, ip, io_ok)
              \/ \E s \in SyncIdParams :
                    do_GET(e, [sync_id |-> s], h, ip, io_ok)

\* a POST to one of the four paths, with the same parameters in its body
Post ==
    /\ Serve
    /\ \E e \in DOMAIN ENDPOINTS, p \in Passwords, ip \in ClientIps,
          io_ok \in BOOLEAN :
          LET h == create_auth_header("admin", p)
          IN  \/ do_POST(e, <<>>, h, ip, io_ok)
              \/ \E proto \in SyncProtocol :
                    do_POST(e, [protocol |-> proto], h, ip, io_ok)
              \/ \E s \in SyncIdParams :
                    do_POST(e, [sync_id |-> s], h, ip, io_ok)

NextVersion ==
    \/ \E t \in Threads :
          \/ CheckMasterVersionBegin(t)
          \/ CheckMasterVersionGetVersion(t)
          \/ CheckMasterVersionGetLastModified(t)
          \/ CheckMasterVersionReturn(t)
    \/ UpdateContentLocked
    \/ Tick

\* threads inside check_master_version while the master file is rewritten
SpecVersion == Init /\ [][NextVersion]_vars

\* confirm_sync by a user other than the one of the entry, or for an id
\* that is not in the ledger
ConfirmByAnother ==
    /\ Serve
    /\ \E u \in Usernames, p \in Passwords, ip \in ClientIps,
          s \in SyncIdParams :
          /\ s \in DOMAIN sync_records => sync_records[s].username # u
          /\ confirm_sync(u, p, s, ip)

AcknowledgeByAnother ==
    /\ Serve
    /\ \E u \in Usernames, p \in Passwords, ip \in ClientIps,
          s \in SyncIdParams :
          /\ s \in DOMAIN sync_records => sync_records[s].username # u
          /\ acknowledge_sync(u, p, s, ip)

NextOthers ==
    \/ GetFileContent
    \/ ConfirmByAnother
    \/ AcknowledgeByAnother
    \/ AddUser

\* entries confirmed and acknowledged only by users who did not open them
SpecOthers == Init /\ [][NextOthers]_vars

\* get_file_content with no protocol or with any text as its protocol
GetWithAnyProtocol ==
    /\ Serve
    /\ \E u \in Usernames, p \in Passwords, ip \in ClientIps,
          io_ok \in BOOLEAN :
          \/ handle_request("get_file_content", Credentials(u, p), ip, io_ok)
          \/ \E proto \in ProtocolValues :
                handle_request("get_file_content",
                               [username |-> u, password |-> p,
                                protocol |-> proto], ip, io_ok)

NextProtocol == GetWithAnyProtocol \/ UpdateContent

\* deliveries asked for under every protocol value
SpecProtocol == Init /\ [][NextProtocol]_vars

NextMethods == Get \/ Post

\* requests of both HTTP methods on every path
SpecMethods == Init /\ [][NextMethods]_vars

NextServer ==
    \/ \E t \in Threads :
          \/ Connect(t)
          \/ process_request(t)
          \/ finish_request(t)
    \/ UpdateContent

\* the serving loop with connections that wait for it; the loop accepts
\* the waiting connections in turn, and a handler that is not stalled ends
SpecServer ==
    /\ Init
    /\ [][NextServer]_vars
    /\ \A t \in Threads :
          /\ SF_vars(process_request(t))
          /\ WF_vars(finish_request(t))

\* the requests of the client are answered and its slave file can be written
Sound ==
    /\ client'.pc # "stopped"
    /\ client.pc \in {"poll", "fetch"} => client'.result.success

\* while the clock has not reached MaxTime the master file is written and
\* requests fail
UntilQuiet ==
    /\ now < MaxTime
    /\ \/ main
       \/ CheckVersion
       \/ FetchContent
       \/ SaveToSlave
       \/ SendConfirmation
       \/ SendAcknowledgment
       \/ Sleep
       \/ UpdateContent

\* from then on the master file is left alone and the client is served
AfterQuiet ==
    /\ now = MaxTime
    /\ \/ main
       \/ CheckVersion
       \/ FetchContent
       \/ SaveToSlave
       \/ SendConfirmation
       \/ SendAcknowledgment
       \/ Sleep
    /\ Sound

NextConverge == UntilQuiet \/ AfterQuiet \/ Tick

\* the client run without end: run_loop always takes its next statement
SpecConverge ==
    /\ Init
    /\ [][NextConverge]_vars
    /\ WF_vars(AfterQuiet)

NextClient ==
    \/ main
    \/ CheckVersion
    \/ FetchContent
    \/ SaveToSlave
    \/ SendConfirmation
    \/ SendAcknowledgment
    \/ Sleep
    \/ UpdateContent

\* one client polling the server while the master file is edited
SpecClient == Init /\ [][NextClient]_vars

\* handle_request and the lines it writes to sync.log
LoggedCall(m, params, ip, io_ok) ==
    /\ handle_request(m, params, ip, io_ok)
    /\ sync_log' = sync_log \o handle_request_log(m, params, ip, io_ok)

LoggedRequest ==
    /\ handled < MaxLogged
    /\ handled' = handled + 1
    /\ UNCHANGED <<lock, threads, client>>
    /\ \E m \in MethodNames, ip \in ClientIps, io_ok \in BOOLEAN :
       \/ \E u \in Usernames, p \in Passwords :
          \/ LoggedCall(m, Credentials(u, p), ip, io_ok)
          \/ \E proto \in SyncProtocol :
                LoggedCall(m, [username |-> u, password |-> p,
                               protocol |-> proto], ip, io_ok)
          \/ \E s \in SyncIdParams :
                LoggedCall(m, [username |-> u, password |-> p,
                               sync_id |-> s], ip, io_ok)
          \/ LoggedCall(m, [username |-> u, password |-> p,
                            extra |-> "x"], ip, io_ok)
       \/ \E u \in Usernames :
             LoggedCall(m, [username |-> u, operation |-> "forged",
                            success |-> TRUE], ip, io_ok)

NextLog == LoggedRequest

\* the dispatcher and its log file
SpecLog == Init /\ [][NextLog]_vars

\* ------------------------------------------------------------- properties
\* Every step sets call to the method it ran, so call' names the step.

\* C1: an authenticated get_file_content call with protocol R leaves the
\* ledger exactly as it was: no SyncRecord is created under protocol R.
C1_RequestLeavesLedger ==
    [][(call'.method = "get_file_content" /\ call'.protocol = "R") =>
       (\A u \in Usernames, p \in Passwords, ip \in ClientIps, io_ok \in BOOLEAN :
          (authenticate(u, p, ip) /\ get_file_content(u, p, ip, "R", io_ok))
              => sync_records' = sync_records)]_vars

\* a delivery under R has been made while the ledger holds an entry
C1_Witness ==
    /\ call.method = "get_file_content"
    /\ call.protocol = "R"
    /\ response.success
    /\ sync_records # <<>>

C3_OneNewEntry(u, ip) ==
    /\ "data" \in DOMAIN response'
    /\ LET sync_id == response'.data.sync_id
       IN  /\ sync_id \notin DOMAIN sync_records
           /\ DOMAIN sync_records' = DOMAIN sync_records \cup {sync_id}
           /\ sync_records'[sync_id].confirmed = FALSE
           /\ sync_records'[sync_id].acknowledged = FALSE
           /\ sync_records'[sync_id].username = u
           /\ sync_records'[sync_id].client_ip = ip
           /\ \A old \in DOMAIN sync_records :
                  sync_records'[old] = sync_records[old]

\* C3 as claimed: every authenticated get_file_content call with protocol RR
\* or RRA adds exactly one ledger entry, keyed by the returned sync_id, not
\* confirmed, not acknowledged, with the caller and the caller's address, and
\* changes no other entry.
C3_EveryCallOpensEntry ==
    [][(call'.method = "get_file_content"
          /\ call'.protocol \in {"RR", "RRA"}) =>
       (\A u \in Usernames, p \in Passwords, ip \in ClientIps, io_ok \in BOOLEAN :
          (/\ authenticate(u, p, ip)
           /\ get_file_content(u, p, ip, call'.protocol, io_ok))
              => C3_OneNewEntry(u, ip))]_vars

\* C3 as amended: every authenticated get_file_content call with protocol RR
\* or RRA that returns success does so.
C3_SuccessfulCallOpensEntry ==
    [][(call'.method = "get_file_content"
          /\ call'.protocol \in {"RR", "RRA"}
          /\ response'.success) =>
       (\A u \in Usernames, p \in Passwords, ip \in ClientIps, io_ok \in BOOLEAN :
          (/\ authenticate(u, p, ip)
           /\ get_file_content(u, p, ip, call'.protocol, io_ok))
              => C3_OneNewEntry(u, ip))]_vars

\* a second entry has been opened, from another address than the first
C3_Witness ==
    /\ call.method = "get_file_content"
    /\ call.protocol \in {"RR", "RRA"}
    /\ response.success
    /\ \E s, t \in DOMAIN sync_records :
          /\ s # t
          /\ sync_records[s].client_ip # sync_records[t].client_ip

\* C4: once get_file_content under RR has returned sync_id s, every
\* authenticated confirm_sync(s) returns success with data
\* {sync_id: s, confirmed: true} and leaves the entry confirmed, whatever
\* happened in between.
C4_ConfirmAfterDelivery ==
    [][(/\ call'.method = "confirm_sync"
        /\ call'.sync_id \in DOMAIN issued
        /\ issued[call'.sync_id] = "RR") =>
       (\A u \in Usernames, p \in Passwords, ip \in ClientIps :
          (/\ authenticate(u, p, ip)
           /\ confirm_sync(u, p, call'.sync_id, ip))
              => /\ response'.success
                 /\ response'.data
                      = [sync_id |-> call'.sync_id, confirmed |-> TRUE]
                 /\ call'.sync_id \in DOMAIN sync_records'
                 /\ sync_records'[call'.sync_id].confirmed)]_vars

\* an RR delivery has been confirmed after the clock moved and after
\* another request was served in between
C4_Witness ==
    /\ call.method = "confirm_sync"
    /\ response.success
    /\ issued[call.sync_id] = "RR"
    /\ handled >= 3
    /\ sync_records[call.sync_id].confirmation_time
          > sync_records[call.sync_id].request_time

\* C5: an authenticated confirm_sync or acknowledge_sync with a sync_id that
\* is not a key of the ledger fails with error Unknown sync ID and leaves the
\* ledger as it was.
C5_UnknownSyncId ==
    [][(/\ call'.method \in {"confirm_sync", "acknowledge_sync"}
        /\ call'.sync_id \notin DOMAIN sync_records) =>
       (\A u \in Usernames, p \in Passwords, ip \in ClientIps :
          (/\ authenticate(u, p, ip)
           /\ (confirm_sync(u, p, call'.sync_id, ip)
                 \/ acknowledge_sync(u, p, call'.sync_id, ip)))
              => /\ ~response'.success
                 /\ "error" \in DOMAIN response'
                 /\ response'.error = <<"Unknown sync ID: ", call'.sync_id>>
                 /\ sync_records' = sync_records)]_vars

\* an unknown id has been refused while the ledger holds an entry
C5_Witness ==
    /\ call.method \in {"confirm_sync", "acknowledge_sync"}
    /\ "error" \in DOMAIN response
    /\ response.error[1] = "Unknown sync ID: "
    /\ sync_records # <<>>

\* C6: a sync_id carried by the response to a get_file_content call made
\* with protocol R is not a key of the ledger then and never becomes one, and
\* an authenticated confirm_sync or acknowledge_sync with it returns Unknown
\* sync ID.
C6_RequestIdNeverKnown ==
    [][/\ \A s \in DOMAIN issued' :
             issued'[s] = "R" => s \notin DOMAIN sync_records'
       /\ (/\ call'.method \in {"confirm_sync", "acknowledge_sync"}
           /\ call'.sync_id \in DOMAIN issued
           /\ issued[call'.sync_id] = "R") =>
          (\A u \in Usernames, p \in Passwords, ip \in ClientIps :
             (/\ authenticate(u, p, ip)
              /\ (confirm_sync(u, p, call'.sync_id, ip)
                    \/ acknowledge_sync(u, p, call'.sync_id, ip)))
                 => /\ ~response'.success
                    /\ response'.error
                         = <<"Unknown sync ID: ", call'.sync_id>>)]_vars

\* the id of a delivery under R has been presented and refused, after a
\* later delivery opened an entry
C6_Witness ==
    /\ call.method \in {"confirm_sync", "acknowledge_sync"}
    /\ call.sync_id \in DOMAIN issued
    /\ issued[call.sync_id] = "R"
    /\ "error" \in DOMAIN response
    /\ response.error[1] = "Unknown sync ID: "
    /\ \E t \in DOMAIN sync_records : t > call.sync_id

\* C7: the confirmed and acknowledged flags of every ledger entry are
\* monotonic: an entry stays in the ledger, and a flag that is true stays
\* true, over every step.
C7_FlagsMonotonic ==
    [][\A s \in DOMAIN sync_records :
          /\ s \in DOMAIN sync_records'
          /\ sync_records[s].confirmed => sync_records'[s].confirmed
          /\ sync_records[s].acknowledged => sync_records'[s].acknowledged]_vars

\* an entry confirmed at an earlier instant has since been acknowledged
C7_Witness ==
    /\ call.method = "acknowledge_sync"
    /\ response.success
    /\ sync_records[call.sync_id].confirmed
    /\ sync_records[call.sync_id].confirmation_time < now

\* C8: a confirm_sync of an already confirmed id returns success and leaves
\* the whole entry, confirmation_time included, as it was; likewise
\* acknowledge_sync and acknowledgment_time.
C8_SetOnce ==
    [][(/\ call'.method \in {"confirm_sync", "acknowledge_sync"}
        /\ call'.sync_id \in DOMAIN sync_records) =>
       (\A u \in Usernames, p \in Passwords, ip \in ClientIps :
          LET s == call'.sync_id
          IN  /\ (/\ sync_records[s].confirmed
                  /\ authenticate(u, p, ip)
                  /\ confirm_sync(u, p, s, ip))
                     => /\ response'.success
                        /\ sync_records'[s] = sync_records[s]
              /\ (/\ sync_records[s].acknowledged
                  /\ authenticate(u, p, ip)
                  /\ acknowledge_sync(u, p, s, ip))
                     => /\ response'.success
                        /\ sync_records'[s] = sync_records[s])]_vars

\* C9: an entry opened under RR is never acknowledged, an entry opened under
\* RRA is never confirmed, and no entry is both confirmed and acknowledged.
C9_ProtocolTransitionsOnly ==
    \A s \in DOMAIN sync_records :
        /\ issued[s] = "RR" => ~sync_records[s].acknowledged
        /\ issued[s] = "RRA" => ~sync_records[s].confirmed
        /\ ~(sync_records[s].confirmed /\ sync_records[s].acknowledged)

\* C10: once get_file_content under RRA has returned sync_id s, the entry
\* stays in the ledger over every step, and every authenticated
\* acknowledge_sync(s) succeeds and leaves the entry acknowledged, whatever
\* time has passed and whatever happened in between.
C10_AcknowledgeAnyTimeLater ==
    [][/\ \A s \in DOMAIN issued :
             issued[s] = "RRA"
                 => (s \in DOMAIN sync_records /\ s \in DOMAIN sync_records')
       /\ (/\ call'.method = "acknowledge_sync"
           /\ call'.sync_id \in DOMAIN issued
           /\ issued[call'.sync_id] = "RRA") =>
          (\A u \in Usernames, p \in Passwords, ip \in ClientIps :
             (/\ authenticate(u, p, ip)
              /\ acknowledge_sync(u, p, call'.sync_id, ip))
                 => /\ response'.success
                    /\ response'.data
                         = [sync_id |-> call'.sync_id, acknowledged |-> TRUE]
                    /\ sync_records'[call'.sync_id].acknowledged)]_vars

\* an RRA delivery has been acknowledged after the clock ran to its end,
\* the document was rewritten and another request was served
C10_Witness ==
    /\ call.method = "acknowledge_sync"
    /\ response.success
    /\ issued[call.sync_id] = "RRA"
    /\ sync_records[call.sync_id].acknowledgment_time
          - sync_records[call.sync_id].request_time >= MaxTime
    /\ content # DefaultContent
    /\ handled >= 3

\* C11: the ledger only grows: over every step each key stays a key, and an
\* entry is left exactly as it was by every step other than a confirm_sync or
\* an acknowledge_sync of its own id, so an entry never confirmed nor
\* acknowledged stays Opened.
C11_LedgerOnlyGrows ==
    [][\A s \in DOMAIN sync_records :
          /\ s \in DOMAIN sync_records'
          /\ ~(/\ call'.method \in {"confirm_sync", "acknowledge_sync"}
               /\ call'.sync_id = s)
                => sync_records'[s] = sync_records[s]]_vars

\* an entry opened at the first instant is still Opened at the last one, after
\* the document was rewritten and another entry was opened and confirmed
C11_Witness ==
    /\ now = MaxTime
    /\ content # DefaultContent
    /\ \E s, t \in DOMAIN sync_records :
          /\ s # t
          /\ sync_records[s].request_time = 0
          /\ ~sync_records[s].confirmed
          /\ ~sync_records[s].acknowledged
          /\ sync_records[t].confirmed

\* C12: when the credentials do not match the users file, each of
\* get_file_content, check_master_version, confirm_sync and acknowledge_sync
\* returns a failure with error Authentication failed and leaves the ledger
\* as it was, whatever the protocol or sync_id.
C12_AuthenticationFailed ==
    [][(call'.method \in RemoteOperations) =>
       \/ /\ DOMAIN response' = {"success", "timestamp", "error"}
          /\ ~response'.success
          /\ response'.error = <<"Authentication failed">>
          /\ sync_records' = sync_records
       \/ \A u \in Usernames, p \in Passwords, ip \in ClientIps :
             ~verify_user(u, p, users) =>
                ~CASE call'.method = "get_file_content" ->
                         \E io_ok \in BOOLEAN :
                            get_file_content(u, p, ip, call'.protocol, io_ok)
                   [] call'.method = "check_master_version" ->
                         \E io_ok \in BOOLEAN :
                            check_master_version(u, p, ip, io_ok)
                   [] call'.method = "confirm_sync" ->
                         confirm_sync(u, p, call'.sync_id, ip)
                   [] call'.method = "acknowledge_sync" ->
                         acknowledge_sync(u, p, call'.sync_id, ip)]_vars

\* a confirm_sync of an Opened entry has been refused for its credentials
C12_Witness ==
    /\ call.method = "confirm_sync"
    /\ "error" \in DOMAIN response
    /\ response.error = <<"Authentication failed">>
    /\ call.sync_id \in DOMAIN sync_records
    /\ ~sync_records[call.sync_id].confirmed

\* C13: authentication precedes every operation: whatever the method name and
\* the parameters of a call of handle_request, a caller whose credentials do
\* not match the users file gets the Authentication failed response and no
\* other outcome.
C13_AuthenticationFirst ==
    [][\A m \in MethodNames, u \in Usernames, p \in Passwords,
          ip \in ClientIps, io_ok \in BOOLEAN :
          (/\ ~verify_user(u, p, users)
           /\ \/ handle_request(m, Credentials(u, p), ip, io_ok)
              \/ \E proto \in SyncProtocol :
                    handle_request(m, [username |-> u, password |-> p,
                                       protocol |-> proto], ip, io_ok)
              \/ \E s \in SyncIdParams :
                    handle_request(m, [username |-> u, password |-> p,
                                       sync_id |-> s], ip, io_ok)
              \/ handle_request(m, [username |-> u, password |-> p,
                                    extra |-> "x"], ip, io_ok))
              => /\ DOMAIN response' = {"success", "timestamp", "error"}
                 /\ ~response'.success
                 /\ response'.error = <<"Authentication failed">>]_vars

\* C14: the Dispatcher exposes exactly the four remote operations: a call of
\* handle_request with any other method name runs no method, changes no state
\* and returns the failure of an unknown operation.
C14_FourOperationsOnly ==
    [][(/\ call'.method = "handle_request"
        /\ call'.name \notin RemoteOperations) =>
          /\ UNCHANGED <<sync_records, users, content, last_modified>>
          /\ DOMAIN response' = {"success", "timestamp", "error"}
          /\ ~response'.success
          /\ response'.error \in
                {<<"Method '", call'.name, "' not found">>,
                 <<"'", call'.name, "' is not a callable method">>}]_vars

\* C15: a wrong password for a user of the users file and any password for a
\* username missing from it have the same outcome: in every state, every call
\* of the four operations made with the one takes exactly the steps it takes
\* with the other, so the two responses have the same success value and the
\* same error text.
C15_SameOutcomeForUnknownUser ==
    [][(call'.method \in RemoteOperations) =>
       (\A u1 \in DOMAIN users, u2 \in Usernames \ DOMAIN users,
           p1 \in Passwords, p2 \in Passwords, ip \in ClientIps :
          ~verify_user(u1, p1, users) =>
             CASE call'.method = "get_file_content" ->
                     \A io_ok \in BOOLEAN :
                        get_file_content(u1, p1, ip, call'.protocol, io_ok)
                           <=> get_file_content(u2, p2, ip, call'.protocol,
                                                io_ok)
               [] call'.method = "check_master_version" ->
                     \A io_ok \in BOOLEAN :
                        check_master_version(u1, p1, ip, io_ok)
                           <=> check_master_version(u2, p2, ip, io_ok)
               [] call'.method = "confirm_sync" ->
                     confirm_sync(u1, p1, call'.sync_id, ip)
                        <=> confirm_sync(u2, p2, call'.sync_id, ip)
               [] call'.method = "acknowledge_sync" ->
                     acknowledge_sync(u1, p1, call'.sync_id, ip)
                        <=> acknowledge_sync(u2, p2, call'.sync_id, ip))]_vars

\* an acknowledge_sync of an entry of the ledger has been refused for its
\* credentials while the users file holds one of the usernames and lacks
\* another
C15_Witness ==
    /\ call.method = "acknowledge_sync"
    /\ "error" \in DOMAIN response
    /\ response.error = <<"Authentication failed">>
    /\ DOMAIN users # {}
    /\ Usernames \ DOMAIN users # {}
    /\ call.sync_id \in DOMAIN sync_records
    /\ ~sync_records[call.sync_id].acknowledged

\* C16: a request whose Authorization header is absent or malformed is an
\* authentication failure: whatever users file add_user has produced, each of
\* the four endpoints, called with the parameters its method takes, answers
\* such a request with Authentication failed.
C16_MalformedHeaderFails ==
    [][\A e \in DOMAIN ENDPOINTS, h \in MalformedHeaders, ip \in ClientIps,
          io_ok \in BOOLEAN :
          (\/ /\ e \in {"/file/content", "/file/version"}
              /\ do_POST(e, <<>>, h, ip, io_ok)
           \/ /\ e = "/file/content"
              /\ \E proto \in SyncProtocol :
                    do_POST(e, [protocol |-> proto], h, ip, io_ok)
           \/ /\ e \in {"/sync/confirm", "/sync/acknowledge"}
              /\ \E s \in SyncIdParams :
                    do_POST(e, [sync_id |-> s], h, ip, io_ok))
              => /\ ~response'.success
                 /\ "error" \in DOMAIN response'
                 /\ response'.error = <<"Authentication failed">>]_vars

\* C17: authentication keeps no state: a call of the four operations is
\* refused with Authentication failed exactly when the username and password
\* it presents do not match the users file as it is at that call, whatever
\* calls succeeded before and however the file has changed since.
C17_StatelessAuthentication ==
    [][(call'.method \in RemoteOperations) =>
       (\A u \in Usernames, p \in Passwords, ip \in ClientIps :
          (CASE call'.method = "get_file_content" ->
                   \E io_ok \in BOOLEAN :
                      get_file_content(u, p, ip, call'.protocol, io_ok)
             [] call'.method = "check_master_version" ->
                   \E io_ok \in BOOLEAN : check_master_version(u, p, ip, io_ok)
             [] call'.method = "confirm_sync" ->
                   confirm_sync(u, p, call'.sync_id, ip)
             [] call'.method = "acknowledge_sync" ->
                   acknowledge_sync(u, p, call'.sync_id, ip))
              => (~verify_user(u, p, users)
                     <=> /\ "error" \in DOMAIN response'
                         /\ response'.error = <<"Authentication failed">>))]_vars

\* admin opened an entry, the password of admin was then replaced, and a later
\* confirm_sync of that entry has been refused
C17_Witness ==
    /\ users["admin"] # hash_password("password")
    /\ call.method = "confirm_sync"
    /\ "error" \in DOMAIN response
    /\ response.error = <<"Authentication failed">>
    /\ call.sync_id \in DOMAIN sync_records
    /\ sync_records[call.sync_id].username = "admin"

\* C18: in every successful get_file_content response the version is the
\* fingerprint of the content of that same response, and that content is one
\* that was written whole, also while other threads rewrite the master file
\* and read it.
C18_ContentAndVersionAgree ==
    (/\ call.method = "get_file_content"
     /\ response.success)
        => /\ response.data.version = md5(response.data.content)
           /\ response.data.content # Truncated
           /\ response.data.content \in Contents

\* a response carries a content written after the start, delivered while
\* another thread is between emptying the file and writing it
C18_Witness ==
    /\ call.method = "get_file_content"
    /\ response.success
    /\ response.data.content # DefaultContent
    /\ content = Truncated
    /\ \E t \in Threads : threads[t].pc = "write"

\* C19: the version is a function of the content only: a successful
\* check_master_version returns the fingerprint of the content as it is, and
\* a write changes the version exactly when it changes the content, so the
\* check after a write differs from the check before it iff the content does.
C19_VersionFollowsContent ==
    [][/\ (/\ call'.method = "check_master_version"
           /\ response'.success)
              => /\ response'.data.version = get_version
                 /\ response'.data.version = md5(content)
       /\ (call'.method = "update_content")
              => ((get_version' = get_version) <=> (content' = content))]_vars

\* a check answers after a write, at a later instant, that changed the content
C19_Witness ==
    /\ call.method = "check_master_version"
    /\ response.success
    /\ response.data.version # md5(DefaultContent)
    /\ last_modified > 0
    /\ handled >= 2

\* C20: check_master_version, whether the caller is authenticated or not,
\* leaves the ledger, the content of the master file and its mtime as they
\* were.
C20_CheckTouchesNothing ==
    [][(call'.method = "check_master_version") =>
          /\ sync_records' = sync_records
          /\ content' = content
          /\ last_modified' = last_modified]_vars

\* a check has answered while the ledger holds an entry and the content is
\* not the one the file started with
C20_Witness ==
    /\ call.method = "check_master_version"
    /\ response.success
    /\ DOMAIN sync_records # {}
    /\ content # DefaultContent

\* C21: sync ids are unique: a successful get_file_content under RR or RRA,
\* whichever thread makes it, returns an id no earlier call returned, and
\* adds one entry to the ledger while every entry already there stays as it
\* was, so N such calls leave N entries.
C21_SyncIdsUnique ==
    [][(/\ issued' # issued
        /\ call'.method = "get_file_content"
        /\ response'.success) =>
          /\ response'.data.sync_id \notin DOMAIN issued
          /\ TracksSync(call'.protocol) =>
                /\ response'.data.sync_id \notin DOMAIN sync_records
                /\ DOMAIN sync_records' =
                      DOMAIN sync_records \cup {response'.data.sync_id}
                /\ Cardinality(DOMAIN sync_records') =
                      Cardinality(DOMAIN sync_records) + 1
                /\ \A s \in DOMAIN sync_records :
                      sync_records'[s] = sync_records[s]]_vars

\* two deliveries have left two entries while a third call, begun before the
\* second one answered, is about to answer
C21_Witness ==
    /\ Cardinality(DOMAIN sync_records) = 2
    /\ call.method = "get_file_content"
    /\ \E t \in Threads : threads[t].pc = "respond"

\* C22: no fault leaves the Dispatcher: whatever the method name and the
\* parameters, handle_request returns a response with a boolean success and,
\* when success is false, an error, and a call that fails leaves the ledger
\* as it was.
C22_AlwaysAnEnvelope ==
    [][(call'.method \in RemoteOperations \cup {"handle_request"}) =>
          /\ "success" \in DOMAIN response'
          /\ response'.success \in BOOLEAN
          /\ ~response'.success =>
                /\ "error" \in DOMAIN response'
                /\ sync_records' = sync_records]_vars

\* C23: every call the Dispatcher handles appends at least one line to the
\* log, whatever its outcome, and the lines already written stay as they
\* were.
C23_EveryCallLogged ==
    [][(handled' # handled) =>
          /\ Len(sync_log') > Len(sync_log)
          /\ SubSeq(sync_log', 1, Len(sync_log)) = sync_log]_vars

\* C24: every failed call is logged before its response is returned: the last
\* line written by the call is a FAILED line with the caller's address and
\* username, the name of the method that was invoked and the reason, for
\* failed authentications as for unknown sync ids, unknown methods and
\* exceptions.
C24_FailureNamesOperation ==
    [][(/\ handled' # handled
        /\ "success" \in DOMAIN response'
        /\ ~response'.success) =>
          /\ Len(sync_log') > Len(sync_log)
          /\ LET line == sync_log'[Len(sync_log')]
             IN  /\ line.status = "FAILED"
                 /\ line.ip \in ClientIps
                 /\ line.user \in Usernames
                 /\ line.error # <<>>
                 /\ line.operation[1] =
                       IF call'.method = "handle_request"
                       THEN call'.name ELSE call'.method]_vars

\* C25: when check_master_version or get_file_content comes back with
\* success false, the client leaves the slave file as it is, sends no
\* confirmation or acknowledgment, goes on to the sleep of run_loop instead
\* of stopping, and from that sleep the next thing it does is poll again.
C25_FailureSkipsCycle ==
    [][/\ (/\ client.pc \in {"poll", "fetch"}
           /\ client'.pc # client.pc
           /\ ~client'.result.success)
          => /\ client'.slave = client.slave
             /\ client'.sent = client.sent
             /\ client'.pc = "sleep"
       /\ (client.pc = "sleep" /\ client' # client) => client'.pc = "poll"]_vars

C25_Witness ==
    /\ client.pc = "fetch"
    /\ client.sync_response # NoResponse
    /\ ~client.sync_response.success
    /\ client.sent = <<>>

\* C26: a confirm_sync (RR) or acknowledge_sync (RRA) the client sends
\* carries the sync_id of the last delivery it received, and at that moment
\* the slave file holds the content of that same delivery.
C26_StoredBeforeConfirmed ==
    [][(client'.sent # client.sent)
          => LET message == client'.sent[Len(client'.sent)]
                 delivery == client.sync_response
             IN  /\ succeeded(delivery)
                 /\ message.sync_id = delivery.data.sync_id
                 /\ client.slave = <<delivery.data.content>>
                 /\ message.operation =
                       (IF client.protocol = "RR" THEN "confirm_sync"
                        ELSE "acknowledge_sync")
                 /\ client.protocol \in {"RR", "RRA"}]_vars

C26_Witness ==
    /\ Len(client.sent) = 1
    /\ client.sent[1].operation = "acknowledge_sync"
    /\ client.pc = "sleep"

\* C27: a request that waits to be handled is always begun and completed in
\* the end, whatever the other requests do: a request whose handler never
\* ends does not keep it waiting (the request itself may be the stalled
\* one).
C27_StalledRequestDelaysNoOther ==
    \A t \in Threads :
       (threads[t].pc = "pending") ~> (threads[t].pc \in {"idle", "stalled"})

\* C28: a GET on /sync/confirm or /sync/acknowledge, and a POST on
\* /file/content or /file/version, does not invoke the operation of that
\* path, and so leaves the sync records as they were.
C28_MethodFixed ==
    [][(call'.method \in RemoteOperations)
          => \A e \in DOMAIN ENDPOINTS, p \in Passwords, ip \in ClientIps,
                io_ok \in BOOLEAN :
                LET h == create_auth_header("admin", p)
                IN  /\ \A s \in SyncIdParams :
                          (/\ e \in {"/sync/confirm", "/sync/acknowledge"}
                           /\ do_GET(e, [sync_id |-> s], h, ip, io_ok))
                             => /\ call'.method # ENDPOINTS[e]
                                /\ sync_records' = sync_records
                    /\ \A proto \in SyncProtocol :
                          (/\ e \in {"/file/content", "/file/version"}
                           /\ do_POST(e, [protocol |-> proto], h, ip, io_ok))
                             => /\ call'.method # ENDPOINTS[e]
                                /\ sync_records' = sync_records]_vars

\* C29: a get_file_content that has read the file returns at once: its
\* response is a success while the entry it stored, if any, is neither
\* confirmed nor acknowledged, and the thread owns no lock afterwards. The
\* lock is only ever owned by a thread inside a with block of the file
\* handler, and while entries stay Opened a thread can still return its
\* delivery, a new get_file_content can begin, and check_master_version,
\* confirm_sync and acknowledge_sync can run whenever the lock is free.
C29_DeliveryNeverWaits ==
    /\ [][\A t \in Threads :
             (threads[t].pc = "respond" /\ threads'[t].pc = "idle")
                => /\ response'.success
                   /\ lock'.owner # t
                   /\ TracksSync(threads[t].protocol)
                         => LET entry == sync_records'[response'.data.sync_id]
                            IN  ~entry.confirmed /\ ~entry.acknowledged]_vars
    /\ [](/\ lock.owner # 0
             => threads[lock.owner].pc
                   \in {"get_content", "get_last_modified", "open", "write"}
          /\ (\E s \in DOMAIN sync_records :
                 ~sync_records[s].confirmed /\ ~sync_records[s].acknowledged)
                => /\ \A t \in Threads :
                         /\ threads[t].pc = "respond"
                               => ENABLED GetFileContentRespond(t)
                         /\ (threads[t].pc = "idle" /\ handled < MaxRequests)
                               => ENABLED GetFileContentBegin(t)
                   /\ (lock.owner = 0 /\ handled < MaxRequests)
                         => /\ ENABLED CheckMasterVersion
                            /\ ENABLED ConfirmSync
                            /\ ENABLED AcknowledgeSync)

\* a second delivery has returned while the entry of the first is still
\* Opened
C29_Witness ==
    /\ Cardinality(DOMAIN issued) = 2
    /\ call.method = "get_file_content"
    /\ \A t \in Threads : threads[t].pc = "idle"
    /\ lock.owner = 0
    /\ \A s \in DOMAIN sync_records :
          ~sync_records[s].confirmed /\ ~sync_records[s].acknowledged
    /\ Cardinality(DOMAIN sync_records) = 2

\* C30: the version and the last_modified of a check_master_version response
\* are those of one state the master file has had during the call, also
\* when update_content runs between the steps of the call.
C30_PairOfOneState ==
    [][\A t \in Threads :
          (threads[t].pc = "return" /\ threads'[t].pc = "idle")
             => <<response'.data.version, response'.data.last_modified>>
                   \in threads[t].states]_vars

\* C31: the poll of a cycle is followed by get_file_content exactly when
\* check_master_version succeeded with a version other than the fingerprint
\* of the slave file, a missing slave file differing from every version;
\* otherwise the cycle ends there, with the ledger and the slave file as
\* they were. The client sends get_file_content from nowhere else.
C31_FetchIffVersionDiffers ==
    [][/\ (client.pc = "poll" /\ client'.pc # "poll")
          => LET version_info == client'.result
                 differs ==
                    /\ version_info.success
                    /\ \/ client.slave = <<>>
                       \/ md5(client.slave[1]) # version_info.data.version
             IN  /\ (client'.pc = "fetch") <=> differs
                 /\ ~differs => /\ client'.pc = "sleep"
                                /\ sync_records' = sync_records
                                /\ client'.slave = client.slave
       /\ (call'.method = "get_file_content" /\ handled' # handled)
          => /\ client.pc = "fetch"
             /\ client.result.success
             /\ "last_modified" \in DOMAIN client.result.data]_vars

\* a cycle has ended at the poll because the slave file has the version of
\* the master
C31_Witness ==
    /\ client.pc = "sleep"
    /\ client.result.success
    /\ "last_modified" \in DOMAIN client.result.data
    /\ client.slave # <<>>
    /\ md5(client.slave[1]) = client.result.data.version

\* C32: once the master file is no longer written, the server answers and
\* the credentials of the client are valid, a running client with two
\* requests left within the bound brings the slave file to the content of
\* the master, and from some moment on the slave file stays equal to it and
\* the client asks for the content no more.
C32_Convergence ==
    [](( /\ now = MaxTime
         /\ client.pc \notin {"start", "stopped"}
         /\ verify_user(client.username, client.password, users)
         /\ handled + 2 <= MaxRequests)
          => <>[](/\ client.slave = <<content>>
                  /\ client.pc \notin {"fetch", "save"}))

\* after the last write of the master the client has fetched the new
\* content, and a later poll has found nothing to fetch
C32_Witness ==
    /\ now = MaxTime
    /\ content # DefaultContent
    /\ client.slave = <<content>>
    /\ client.pc = "sleep"
    /\ client.result.success
    /\ "last_modified" \in DOMAIN client.result.data
    /\ handled < MaxRequests

C34_AnyUserMayConfirm ==
    [][(/\ call'.method \in {"confirm_sync", "acknowledge_sync"}
        /\ call'.sync_id \in DOMAIN sync_records)
          => \A u \in Usernames, p \in Passwords, ip \in ClientIps :
                (/\ verify_user(u, p, users)
                 /\ CASE call'.method = "confirm_sync" ->
                            confirm_sync(u, p, call'.sync_id, ip)
                      [] call'.method = "acknowledge_sync" ->
                            acknowledge_sync(u, p, call'.sync_id, ip))
                   => LET before == sync_records[call'.sync_id]
                          after == sync_records'[call'.sync_id]
                      IN  /\ response'.success
                          /\ IF call'.method = "confirm_sync"
                             THEN after.confirmed
                             ELSE after.acknowledged
                          /\ after.username = before.username
                          /\ after.client_ip = before.client_ip]_vars

\* an entry opened by bob has been confirmed by a call of another user
C34_Witness ==
    /\ call.method = "confirm_sync"
    /\ response.success
    /\ sync_records[call.sync_id].username = "bob"
    /\ sync_records[call.sync_id].confirmed
    /\ ~sync_records[call.sync_id].acknowledged

\* C35: an authenticated get_file_content that names no protocol, or one
\* other than "RR" and "RRA", answers as under "R" when the file can be
\* read: a success with the content, its version and a new sync_id, and the
\* ledger as it was.
C35_OtherProtocolsAsR ==
    [][(call'.method = "get_file_content" /\ ~call'.protocol \in {"RR", "RRA"})
          => \A u \in Usernames, p \in Passwords, ip \in ClientIps :
                (/\ verify_user(u, p, users)
                 /\ \/ handle_request("get_file_content", Credentials(u, p),
                                      ip, TRUE)
                    \/ handle_request("get_file_content",
                                      [username |-> u, password |-> p,
                                       protocol |-> call'.protocol], ip, TRUE))
                   => /\ response' = create_sync_response(TRUE, content,
                                                          md5(content),
                                                          next_uuid)
                      /\ response'.success
                      /\ "error" \notin DOMAIN response'
                      /\ sync_records' = sync_records]_vars

\* a protocol written in lower case has been served and no entry opened
C35_Witness ==
    /\ call.method = "get_file_content"
    /\ call.protocol = "rr"
    /\ response.success
    /\ response.data.content = content
    /\ sync_records = <<>>

\* C36: in every entry of the ledger confirmation_time is set exactly when
\* confirmed is true, and acknowledgment_time exactly when acknowledged is
\* true.
C36_TimesFollowFlags ==
    \A s \in DOMAIN sync_records :
       /\ (sync_records[s].confirmation_time # None)
             <=> sync_records[s].confirmed
       /\ (sync_records[s].acknowledgment_time # None)
             <=> sync_records[s].acknowledged

\* the ledger holds an entry that is acknowledged and not confirmed, next
\* to one that is neither
C36_Witness ==
    /\ \E s \in DOMAIN sync_records :
          /\ sync_records[s].acknowledged
          /\ sync_records[s].acknowledgment_time # None
          /\ ~sync_records[s].confirmed
          /\ sync_records[s].confirmation_time = None
    /\ \E s \in DOMAIN sync_records :
          /\ ~sync_records[s].acknowledged
          /\ ~sync_records[s].confirmed
====
